---- MODULE Spec2Model ----
(***************************************************************************)
(* Model of src/bcc_push_generator.py: BCCPushNotificationGenerator.       *)
(*                                                                         *)
(* Conventions                                                             *)
(*  - A pandas table is modelled per client code: clients_df is a function *)
(*    from the codes that have a row to that row, transactions_df and      *)
(*    transfers_df map every code to the sequence of its rows (in table    *)
(*    order); the filter df[df['client_code'] == c] is the lookup at c.    *)
(*  - Cyrillic literals are transliterated (TLA+ strings are ASCII); the   *)
(*    comment next to each literal gives the original.                     *)
(*  - Amounts are KZT and multiples of 1000.  A score is a float in the   *)
(*    source; here it is the exact rational num/den, all scores of one     *)
(*    client over the same denominator den (ScoreDen), so comparisons are  *)
(*    comparisons of the numerators.                                       *)
(*  - A Python dict is a function with a set of strings as domain; the     *)
(*    empty dict is the empty function, dict truthiness is a non-empty     *)
(*    domain, d.get(k, x) is Get(d, k, x).                                 *)
(***************************************************************************)
EXTENDS Integers, Sequences, FiniteSets, TLC

VARIABLES
    clients_df,       \* self.clients_df: code -> row, for codes with a row
    transactions_df,  \* self.transactions_df: code -> rows of that client
    transfers_df,     \* self.transfers_df: code -> rows of that client
    recommendations,  \* self.recommendations
    pc,               \* position of the caller / of process_all_clients
    queue,            \* codes the for loop of process_all_clients has left
    calls,            \* completed or started calls of process_all_clients
    analysis,         \* local of the loop body: analyze_client's result
    scores,           \* local of the loop body: calculate_product_scores' result
    best_product,     \* local of the loop body: select_best_product's result
    push_text,        \* local of the loop body: generate_push_notification's result
    client_transactions, \* main.py, local of the loop: the client's transactions
    client_transfers, \* main.py, local of the loop: the client's transfers
    written           \* the table save_results wrote last (rows in file order)

vars == <<clients_df, transactions_df, transfers_df,
          recommendations, pc, queue, calls, analysis, scores, best_product,
          push_text, client_transactions, client_transfers, written>>

tables == <<clients_df, transactions_df, transfers_df>>
locals == <<analysis, scores, best_product, push_text>>
frames == <<client_transactions, client_transfers>>

\* a table of main.py: its rows and the names of its columns
Frame(rows, columns) == [rows |-> rows, columns |-> columns]

\* the columns of transactions.csv and of transfers.csv
TransactionColumns == {"date", "category", "amount", "currency", "client_code"}
TransferColumns == {"date", "type", "direction", "amount", "currency", "client_code"}

----------------------------------------------------------------------------
(* Bounds of the model *)

MaxCode == 2        \* client codes of the batch are 1..MaxCode
MaxTrans == 3       \* transactions of the client of the one-client runs
MaxTransfers == 2   \* transfers of the client of the one-client runs
MaxCalls == 2       \* calls of process_all_clients on one instance
MaxOpenCalls == 1   \* calls of process_all_clients with the loop order left open
MaxCategoryTrans == 4  \* transactions of the client of the extraction runs

----------------------------------------------------------------------------
(* Generic helpers *)

Get(d, k, x) == IF k \in DOMAIN d THEN d[k] ELSE x

EmptyDict == [k \in {} |-> 0]

Truthy(d) == DOMAIN d # {}

Min(a, b) == IF a <= b THEN a ELSE b

RECURSIVE SeqSum(_)
SeqSum(s) == IF s = <<>> THEN 0 ELSE Head(s) + SeqSum(Tail(s))

\* Amounts are multiples of 1000; Th(x) is x in thousands.
Th(x) == x \div 1000

Amounts(rows) == [i \in 1..Len(rows) |-> rows[i].amount]

SeqsUpTo(S, n) == UNION {[1..m -> S] : m \in 0..n}

----------------------------------------------------------------------------
(* Vocabularies of the input tables *)

\* The spend categories of the model, in the key order of
\* groupby('category') (sorted): Edim doma = "Едим дома", Kafe i restorany =
\* "Кафе и рестораны", Oteli = "Отели", Produkty pitaniya = "Продукты
\* питания", Puteshestviya = "Путешествия", Taksi = "Такси".
CategoryOrder ==
    <<"Edim doma", "Kafe i restorany", "Oteli", "Produkty pitaniya",
      "Puteshestviya", "Taksi">>

Categories == {CategoryOrder[i] : i \in 1..Len(CategoryOrder)}

Txn(cat, amt, cur) == [category |-> cat, amount |-> amt, currency |-> cur]

Transfer(t, d, amt) == [type |-> t, direction |-> d, amount |-> amt]

\* "Aidar" = "Айдар", "Premialnyj klient" = "Премиальный клиент",
\* "Astana" = "Астана"
\* A cell of the age column: an int, or a str when the column has dtype
\* object (a file with one non-numeric age keeps every age as text)
IntCell(n) == [dtype |-> "int", v |-> n]

ClientRow(bal, a) ==
    [name |-> <<"Aidar">>, status |-> "Premialnyj klient", age |-> a,
     city |-> "Astana", avg_monthly_balance_KZT |-> bal]

----------------------------------------------------------------------------
(* Feature extraction: analyze_client and its helpers *)

online_categories == {"Edim doma", "Smotrim doma", "Igraem doma"}

travel_categories == {"Puteshestviya", "Oteli", "Taksi"}

\* "Yuvelirnye ukrasheniya" = "Ювелирные украшения", "Kosmetika i
\* Parfyumeriya" = "Косметика и Парфюмерия", "Spa i massazh" = "Спа и массаж"
premium_categories ==
    {"Yuvelirnye ukrasheniya", "Kosmetika i Parfyumeriya", "Kafe i restorany",
     "Spa i massazh"}

SpendIn(trans_df, cats) ==
    SeqSum(Amounts(SelectSeq(trans_df, LAMBDA r : r.category \in cats)))

\* Mutant: groupby('category', sort=False), the keys in the order of their
\* first appearance
GroupKeys_unsorted(trans_df) ==
    LET firsts == SelectSeq([i \in 1..Len(trans_df) |-> i],
                            LAMBDA i : \A j \in 1..(i - 1) :
                                trans_df[j].category # trans_df[i].category)
    IN [k \in 1..Len(firsts) |-> trans_df[firsts[k]].category]

\* trans_df.groupby('category')['amount'].sum(): the categories that occur,
\* in sorted key order, each with its summed amount
GroupKeys(trans_df) ==
    SelectSeq(CategoryOrder,
              LAMBDA c : \E i \in 1..Len(trans_df) : trans_df[i].category = c)

category_sums(trans_df) ==
    [c \in {trans_df[i].category : i \in 1..Len(trans_df)} |->
        SpendIn(trans_df, {c})]

\* Series.nlargest(n) with keep='first': the n largest values in descending
\* order, equal values in the order of the series
RECURSIVE InsertDesc(_, _, _)
InsertDesc(sorted, k, val) ==
    IF sorted = <<>> THEN <<k>>
    ELSE IF val[Head(sorted)] >= val[k]
         THEN <<Head(sorted)>> \o InsertDesc(Tail(sorted), k, val)
         ELSE <<k>> \o sorted

RECURSIVE StableDesc(_, _)
StableDesc(keys, val) ==
    IF keys = <<>> THEN <<>>
    ELSE LET rest == StableDesc(SubSeq(keys, 1, Len(keys) - 1), val)
         IN InsertDesc(rest, keys[Len(keys)], val)

nlargest(keys, val, n) ==
    LET s == StableDesc(keys, val) IN SubSeq(s, 1, Min(n, Len(s)))

\* Series.std() (ddof = 1) as the exact square of the deviation, in
\* thousands squared: std^2 = num / den
SampleVariance(xs) ==
    LET n  == Len(xs)
        t  == [i \in 1..n |-> Th(xs[i])]
        sq == [i \in 1..n |-> t[i] * t[i]]
    IN [num |-> n * SeqSum(sq) - SeqSum(t) * SeqSum(t), den |-> n * (n - 1)]

ZeroVolatility == [num |-> 0, den |-> 1]

_analyze_transactions(trans_df) ==
    IF trans_df = <<>> THEN EmptyDict
    ELSE
      [total_spend |-> SeqSum(Amounts(trans_df)),
       avg_transaction |-> <<SeqSum(Amounts(trans_df)), Len(trans_df)>>,
       transaction_count |-> Len(trans_df),
       category_spend |-> category_sums(trans_df),
       top_categories |->
           nlargest(GroupKeys(trans_df), category_sums(trans_df), 3),
       online_spend |-> SpendIn(trans_df, online_categories),
       travel_spend |-> SpendIn(trans_df, travel_categories),
       premium_spend |-> SpendIn(trans_df, premium_categories),
       spending_volatility |->
           IF Len(trans_df) > 1 THEN SampleVariance(Amounts(trans_df))
           ELSE ZeroVolatility]

loan_types == {"loan_payment_out", "cc_repayment_out", "installment_payment_out"}

_analyze_transfers(tr_df) ==
    IF tr_df = <<>> THEN EmptyDict
    ELSE
      LET income   == SeqSum(Amounts(SelectSeq(tr_df, LAMBDA r : r.direction = "in")))
          expenses == SeqSum(Amounts(SelectSeq(tr_df, LAMBDA r : r.direction = "out")))
          atm      == SelectSeq(tr_df, LAMBDA r : r.type = "atm_withdrawal")
          loan_payments ==
              SeqSum(Amounts(SelectSeq(tr_df, LAMBDA r : r.type \in loan_types)))
      IN [total_income |-> income,
          total_expenses |-> expenses,
          net_cashflow |-> income - expenses,
          atm_count |-> Len(atm),
          atm_amount |-> SeqSum(Amounts(atm)),
          loan_payments |-> loan_payments,
          has_installments |-> loan_payments > 0,
          p2p_count |-> Len(SelectSeq(tr_df, LAMBDA r : r.type = "p2p_out"))]

fx_currencies == {"USD", "EUR"}

fx_types == {"fx_buy", "fx_sell", "deposit_fx_topup_out", "deposit_fx_withdraw_in"}

\* value_counts().index[0]: the most frequent currency, the first
\* encountered one among equally frequent ones
primary_currency(fx_trans) ==
    LET count(c) == Len(SelectSeq(fx_trans, LAMBDA r : r.currency = c))
        first == CHOOSE i \in 1..Len(fx_trans) :
                   /\ \A j \in 1..Len(fx_trans) :
                        count(fx_trans[j].currency) <= count(fx_trans[i].currency)
                   /\ \A j \in 1..(i - 1) :
                        count(fx_trans[j].currency) < count(fx_trans[i].currency)
    IN fx_trans[first].currency

_analyze_fx_activity(trans_df, tr_df) ==
    LET fx_trans     == SelectSeq(trans_df, LAMBDA r : r.currency \in fx_currencies)
        fx_spend     == SeqSum(Amounts(fx_trans))
        fx_transfers == SelectSeq(tr_df, LAMBDA r : r.type \in fx_types)
        fx_volume    == SeqSum(Amounts(fx_transfers))
    IN [fx_spend |-> fx_spend,
        fx_volume |-> fx_volume,
        has_fx_activity |-> (fx_spend + fx_volume) > 0,
        primary_fx_currency |->
            IF fx_trans # <<>> THEN primary_currency(fx_trans) ELSE "None"]

\* "Klient_" = "Клиент_", "Standartnyj klient" = "Стандартный клиент",
\* "Almaty" = "Алматы"; the name f'Клиент_{client_code}' is the pair of the
\* prefix and the code
default_client(client_code) ==
    [name |-> <<"Klient_", client_code>>, status |-> "Standartnyj klient",
     age |-> IntCell(35), city |-> "Almaty",
     avg_monthly_balance_KZT |-> 100000]

analyze_client(cdf, tdf, fdf, client_code) ==
    LET client_info == IF client_code \in DOMAIN cdf THEN cdf[client_code]
                       ELSE default_client(client_code)
        client_trans == tdf[client_code]
        client_transfer_rows == fdf[client_code]
    IN [client_code |-> client_code,
        name |-> client_info.name,
        status |-> client_info.status,
        age |-> client_info.age,
        city |-> client_info.city,
        avg_balance |-> client_info.avg_monthly_balance_KZT,
        transaction_stats |-> _analyze_transactions(client_trans),
        transfer_stats |-> _analyze_transfers(client_transfer_rows),
        fx_activity |-> _analyze_fx_activity(client_trans, client_transfer_rows)]


----------------------------------------------------------------------------
(* Scoring: calculate_product_scores *)

\* The common denominator of the scores of one analysis: ten times the
\* total spend in thousands (the ratios divide by total_spend, the deposit
\* factors 0.7 and 0.8 by ten)
ScoreDen(a) ==
    IF Truthy(a.transaction_stats) /\ a.transaction_stats.total_spend > 0
    THEN 10 * Th(a.transaction_stats.total_spend)
    ELSE 10

\* f as a score of analysis a
Flat(a, f) == [num |-> f * ScoreDen(a), den |-> ScoreDen(a)]

\* ((part / total_spend) if total_spend > 0 else 0) * w
RatioTimes(a, part, w) ==
    LET total_spend == Get(a.transaction_stats, "total_spend", 1)
    IN [num |-> IF total_spend > 0 THEN Th(part) * w * 10 ELSE 0,
        den |-> ScoreDen(a)]

Plus(s, t) == [num |-> s.num + t.num, den |-> s.den]

\* Mutant: the factor is left out
Tenths_ignored(s, tenths) == s

\* s * tenths / 10
Tenths(s, tenths) == [num |-> (s.num * tenths) \div 10, den |-> s.den]

\* Mutant: the score is stored without the min(score, 100)
Cap100_missing(s) == s

\* min(score, 100)
Cap100(s) == [num |-> Min(s.num, 100 * s.den), den |-> s.den]

\* comparisons of scores over one denominator, and with a number
ScoreGt(s, t) == s.num > t.num
ScoreEq(s, t) == s.num = t.num
ScoreGtNum(s, n) == s.num > n * s.den
ScoreLeNum(s, n) == s.num <= n * s.den

\* if cond: score += f
Bonus(a, cond, f) == Flat(a, IF cond THEN f ELSE 0)

\* analysis['age'] < n raises TypeError on a str
AgeLt(a, n) == a.age.v < n

travel_score(a) ==
    LET ts == a.transaction_stats
    IN IF Truthy(ts)
       THEN Plus(Plus(RatioTimes(a, Get(ts, "travel_spend", 0), 100),
                      Bonus(a, a.fx_activity.has_fx_activity, 20)),
                 Bonus(a, /\ "category_spend" \in DOMAIN ts
                          /\ Get(ts.category_spend, "Taksi", 0) > 20000, 15))
       ELSE Flat(a, 0)

\* Mutant: the balance bonuses are assigned (=) instead of added (+=), so
\* the second one replaces the first
premium_score_overwritten(a) ==
    LET ts == a.transaction_stats
        balance_part == IF a.avg_balance > 1000000 THEN Flat(a, 20)
                        ELSE Bonus(a, a.avg_balance > 500000, 40)
        spend_part == IF Truthy(ts)
                      THEN RatioTimes(a, Get(ts, "premium_spend", 0), 30)
                      ELSE Flat(a, 0)
    IN Plus(balance_part, spend_part)

\* Mutant: a flat bonus of 10 is added for a client of premium status
premium_score_status_bonus(a) ==
    LET ts == a.transaction_stats
        balance_part == Plus(Bonus(a, a.avg_balance > 500000, 40),
                             Bonus(a, a.avg_balance > 1000000, 20))
        spend_part == IF Truthy(ts)
                      THEN RatioTimes(a, Get(ts, "premium_spend", 0), 30)
                      ELSE Flat(a, 0)
    IN Plus(Plus(balance_part, spend_part),
            Bonus(a, a.status = "Premialnyj klient", 10))

premium_score(a) ==
    LET ts == a.transaction_stats
        fs == a.transfer_stats
        balance_part == Plus(Bonus(a, a.avg_balance > 500000, 40),
                             Bonus(a, a.avg_balance > 1000000, 20))
        spend_part == IF Truthy(ts)
                      THEN RatioTimes(a, Get(ts, "premium_spend", 0), 30)
                      ELSE Flat(a, 0)
        transfer_part ==
            IF Truthy(fs)
            THEN Plus(Bonus(a, Get(fs, "atm_count", 0) > 5, 15),
                      Bonus(a, Get(fs, "p2p_count", 0) > 10, 10))
            ELSE Flat(a, 0)
    IN Plus(Plus(balance_part, spend_part), transfer_part)

credit_score(a) ==
    LET ts == a.transaction_stats
        fs == a.transfer_stats
        trans_part ==
            IF Truthy(ts)
            THEN Plus(Plus(Bonus(a, Len(Get(ts, "top_categories", <<>>)) >= 3, 30),
                           RatioTimes(a, Get(ts, "online_spend", 0), 40)),
                      Bonus(a, Get(ts, "transaction_count", 0) > 50, 15))
            ELSE Flat(a, 0)
    IN Plus(trans_part,
            Bonus(a, Truthy(fs) /\ Get(fs, "has_installments", FALSE), 15))

\* Mutant: the score of a client with FX activity starts at 30 instead of 50
fx_score_low_start(a) ==
    IF a.fx_activity.has_fx_activity
    THEN IF a.fx_activity.fx_volume > 500000 THEN Flat(a, 90)
         ELSE IF a.fx_activity.fx_volume > 100000 THEN Flat(a, 70)
         ELSE Flat(a, 30)
    ELSE Flat(a, 0)

fx_score(a) ==
    IF a.fx_activity.has_fx_activity
    THEN IF a.fx_activity.fx_volume > 500000 THEN Flat(a, 90)
         ELSE IF a.fx_activity.fx_volume > 100000 THEN Flat(a, 70)
         ELSE Flat(a, 50)
    ELSE Flat(a, 0)

\* Mutant: the bonuses are added without the test that the client has
\* transfer statistics
loan_score_unguarded(a) ==
    LET fs == a.transfer_stats
    IN Plus(Plus(Bonus(a, Get(fs, "net_cashflow", 0) < -50000, 40),
                 Bonus(a, a.avg_balance < 100000, 30)),
            Bonus(a, Get(fs, "loan_payments", 0) > 0, 30))

\* Mutant: the three tests are alternatives (elif), so only the first bonus
\* whose condition holds is added
loan_score_elif(a) ==
    LET fs == a.transfer_stats
    IN IF Truthy(fs)
       THEN IF Get(fs, "net_cashflow", 0) < -50000 THEN Flat(a, 40)
            ELSE IF a.avg_balance < 100000 THEN Flat(a, 30)
            ELSE Bonus(a, Get(fs, "loan_payments", 0) > 0, 30)
       ELSE Flat(a, 0)

loan_score(a) ==
    LET fs == a.transfer_stats
    IN IF Truthy(fs)
       THEN Plus(Plus(Bonus(a, Get(fs, "net_cashflow", 0) < -50000, 40),
                      Bonus(a, a.avg_balance < 100000, 30)),
                 Bonus(a, Get(fs, "loan_payments", 0) > 0, 30))
       ELSE Flat(a, 0)

deposit_base_score(a) ==
    IF a.avg_balance > 1000000 THEN Flat(a, 80)
    ELSE IF a.avg_balance > 500000 THEN Flat(a, 60)
    ELSE IF a.avg_balance > 200000 THEN Flat(a, 40)
    ELSE Flat(a, 0)

\* Mutant: a client without transaction statistics counts as having low
\* volatility (the volatility taken as 0 instead of missing)
low_volatility_missing_is_low(a) ==
    LET ts == a.transaction_stats
    IN \/ ~Truthy(ts)
       \/ /\ "spending_volatility" \in DOMAIN ts
          /\ ts.spending_volatility.num
               < Th(50000) * Th(50000) * ts.spending_volatility.den

\* volatility < 50000, the volatility being the root of num / den
low_volatility(a) ==
    LET ts == a.transaction_stats
    IN /\ Truthy(ts)
       /\ "spending_volatility" \in DOMAIN ts
       /\ ts.spending_volatility.num
            < Th(50000) * Th(50000) * ts.spending_volatility.den

invest_score(a) ==
    IF a.avg_balance > 500000
    THEN Plus(Plus(Flat(a, 50), Bonus(a, AgeLt(a, 45), 20)),
              Bonus(a, AgeLt(a, 35), 10))
    ELSE Flat(a, 0)

gold_score(a) ==
    IF a.avg_balance > 2000000 THEN Flat(a, 80)
    ELSE IF a.avg_balance > 1000000 THEN Flat(a, 60)
    ELSE Flat(a, 0)

Item(p, s) == [product |-> p, score |-> s]

\* The dict scores, as the sequence of its items in insertion order
calculate_product_scores(a) ==
    <<Item("travel_card", Cap100(travel_score(a))),
      Item("premium_card", Cap100(premium_score(a))),
      Item("credit_card", Cap100(credit_score(a))),
      Item("fx_exchange", fx_score(a)),
      Item("cash_loan", Cap100(loan_score(a))),
      Item("multi_deposit",
           IF a.fx_activity.has_fx_activity THEN deposit_base_score(a)
           ELSE Flat(a, 0)),
      Item("savings_deposit",
           IF low_volatility(a) THEN deposit_base_score(a)
           ELSE Tenths(deposit_base_score(a), 7)),
      Item("accumulative_deposit",
           IF a.avg_balance > 100000 THEN Tenths(deposit_base_score(a), 8)
           ELSE Flat(a, 0)),
      Item("investments", invest_score(a)),
      Item("gold", gold_score(a))>>

\* calculate_product_scores raises TypeError at the age comparison of the
\* investments score when the age is a str
scores_raise(a) == a.avg_balance > 500000 /\ a.age.dtype = "str"

----------------------------------------------------------------------------
(* Selection: select_best_product *)

\* Mutant: sorted(...)[::-1] in place of reverse=True, which turns the order
\* of the items of equal score around
sorted_products_flipped(sc) ==
    LET n == Len(sc)
        order == StableDesc([i \in 1..n |-> n + 1 - i],
                            [i \in 1..n |-> sc[i].score.num])
    IN [i \in 1..n |-> sc[order[i]]]

\* sorted(scores.items(), key=lambda x: x[1], reverse=True): stable, so
\* items of equal score keep their order
sorted_products(sc) ==
    LET order == StableDesc([i \in 1..Len(sc) |-> i],
                            [i \in 1..Len(sc) |-> sc[i].score.num])
    IN [i \in 1..Len(sc) |-> sc[order[i]]]

\* Mutant: the minimum threshold is forgotten
select_best_product_no_threshold(sc) ==
    IF sc = <<>> THEN "savings_deposit" ELSE sorted_products(sc)[1].product

\* Mutant: the threshold test is >= 20 instead of > 20
select_best_product_ge(sc) ==
    IF sc = <<>> THEN "savings_deposit"
    ELSE IF ~ScoreLeNum(sorted_products(sc)[1].score, 20)
            \/ ScoreEq(sorted_products(sc)[1].score,
                       [num |-> 20 * sorted_products(sc)[1].score.den])
         THEN sorted_products(sc)[1].product
         ELSE "savings_deposit"

select_best_product(sc) ==
    IF sc = <<>> THEN "savings_deposit"
    ELSE IF ScoreGtNum(sorted_products(sc)[1].score, 20)
         THEN sorted_products(sc)[1].product
         ELSE "savings_deposit"


----------------------------------------------------------------------------
(* Rendering: generate_push_notification and the templates *)

\* f"{int(amount):,}".replace(',', ' '): the decimal groups of three digits
RECURSIVE _format_amount(_)
_format_amount(amount) ==
    IF amount < 1000 THEN <<amount>>
    ELSE _format_amount(amount \div 1000) \o <<amount % 1000>>

\* A rendered message: the template (one f-string of the source) and the
\* values interpolated into it; fields a template does not use are empty
Msg(template, name, amount, amount2, curr, cats) ==
    [template |-> template, name |-> name, amount |-> amount,
     amount2 |-> amount2, curr |-> curr, cats |-> cats]

Plain(template, name) == Msg(template, name, <<>>, <<>>, "", <<>>)

\* len(cat) of the categories of the model, counted on the Cyrillic names
category_len ==
    [c \in Categories |->
        CASE c = "Edim doma" -> 9
          [] c = "Kafe i restorany" -> 16
          [] c = "Oteli" -> 5
          [] c = "Produkty pitaniya" -> 16
          [] c = "Puteshestviya" -> 11
          [] c = "Taksi" -> 5]

_generate_travel_push(a) ==
    LET ts == a.transaction_stats
        travel_spend == IF Truthy(ts) THEN Get(ts, "travel_spend", 0) ELSE 0
        taxi_spend == IF Truthy(ts) /\ "category_spend" \in DOMAIN ts
                      THEN Get(ts.category_spend, "Taksi", 0) ELSE 0
        total_travel == travel_spend + taxi_spend
        cashback == (total_travel * 4) \div 100
    IN IF total_travel > 100000
       THEN Msg("travel_spend", a.name, _format_amount(total_travel),
                _format_amount(cashback), "", <<>>)
       ELSE IF a.fx_activity.has_fx_activity
       THEN Msg("travel_fx", a.name, <<>>, <<>>,
                Get(a.fx_activity, "primary_fx_currency", "USD"), <<>>)
       ELSE IF taxi_spend > 20000
       THEN Msg("travel_taxi", a.name, _format_amount(taxi_spend), <<>>, "", <<>>)
       ELSE Plain("travel_generic", a.name)

_generate_premium_push(a) ==
    LET ts == a.transaction_stats
        balance == a.avg_balance
        premium_spend == IF Truthy(ts) THEN Get(ts, "premium_spend", 0) ELSE 0
    IN IF balance > 1500000 THEN Plain("premium_status", a.name)
       ELSE IF balance > 1000000
       THEN Msg("premium_balance", a.name, _format_amount(balance), <<>>, "", <<>>)
       ELSE IF premium_spend > 50000
       THEN Msg("premium_spend", a.name, _format_amount(premium_spend), <<>>,
                "", <<>>)
       ELSE Plain("premium_generic", a.name)

_generate_credit_push(a) ==
    LET ts == a.transaction_stats
        top == IF Truthy(ts) THEN Get(ts, "top_categories", <<>>) ELSE <<>>
        cats == SubSeq(top, 1, Min(2, Len(top)))
        short == SelectSeq(cats, LAMBDA cat : category_len[cat] < 20)
        online_spend == IF Truthy(ts) THEN Get(ts, "online_spend", 0) ELSE 0
    IN IF short # <<>>
       THEN Msg("credit_categories", a.name, <<>>, <<>>, "", short)
       ELSE IF online_spend > 30000
       THEN Msg("credit_online", a.name, _format_amount(online_spend), <<>>,
                "", <<>>)
       ELSE Plain("credit_generic", a.name)

\* "valyute" = "валюте"
_generate_fx_push(a) ==
    LET curr == Get(a.fx_activity, "primary_fx_currency", "valyute")
        fx_volume == Get(a.fx_activity, "fx_volume", 0)
    IN IF fx_volume > 100000
       THEN Msg("fx_volume", a.name, _format_amount(fx_volume), <<>>, curr, <<>>)
       ELSE Msg("fx_generic", a.name, <<>>, <<>>, curr, <<>>)

_generate_loan_push(a) ==
    LET fs == a.transfer_stats
        cashflow == IF Truthy(fs) THEN Get(fs, "net_cashflow", 0) ELSE 0
    IN IF cashflow < -100000 THEN Plain("loan_deficit", a.name)
       ELSE Plain("loan_generic", a.name)

_generate_multi_deposit_push(a) ==
    IF a.avg_balance > 1000000
    THEN Msg("multi_deposit_balance", a.name, _format_amount(a.avg_balance),
             <<>>, "", <<>>)
    ELSE Plain("multi_deposit_generic", a.name)

_generate_savings_push(a) ==
    IF a.avg_balance > 500000
    THEN Msg("savings_balance", a.name, _format_amount(a.avg_balance), <<>>,
             "", <<>>)
    ELSE Plain("savings_generic", a.name)

_generate_accumulative_push(a) ==
    IF a.avg_balance > 200000 THEN Plain("accumulative_regular", a.name)
    ELSE Plain("accumulative_small", a.name)

_generate_investment_push(a) ==
    IF AgeLt(a, 35) THEN Plain("investment_start", a.name)
    ELSE IF AgeLt(a, 45) THEN Plain("investment_ready", a.name)
    ELSE Plain("investment_diversify", a.name)

_generate_gold_push(a) ==
    IF a.avg_balance > 2000000
    THEN Msg("gold_capital", a.name, _format_amount(a.avg_balance), <<>>, "", <<>>)
    ELSE Plain("gold_generic", a.name)

_generate_default_push(a) == Plain("default_push", a.name)

\* Mutant: the templates dict has no entry for savings_deposit, which
\* therefore gets the default generator
generate_push_notification_no_savings(a, product) ==
    CASE product = "travel_card" -> _generate_travel_push(a)
      [] product = "premium_card" -> _generate_premium_push(a)
      [] product = "credit_card" -> _generate_credit_push(a)
      [] product = "fx_exchange" -> _generate_fx_push(a)
      [] product = "cash_loan" -> _generate_loan_push(a)
      [] product = "multi_deposit" -> _generate_multi_deposit_push(a)
      [] product = "accumulative_deposit" -> _generate_accumulative_push(a)
      [] product = "investments" -> _generate_investment_push(a)
      [] product = "gold" -> _generate_gold_push(a)
      [] OTHER -> _generate_default_push(a)

generate_push_notification(a, product) ==
    CASE product = "travel_card" -> _generate_travel_push(a)
      [] product = "premium_card" -> _generate_premium_push(a)
      [] product = "credit_card" -> _generate_credit_push(a)
      [] product = "fx_exchange" -> _generate_fx_push(a)
      [] product = "cash_loan" -> _generate_loan_push(a)
      [] product = "multi_deposit" -> _generate_multi_deposit_push(a)
      [] product = "savings_deposit" -> _generate_savings_push(a)
      [] product = "accumulative_deposit" -> _generate_accumulative_push(a)
      [] product = "investments" -> _generate_investment_push(a)
      [] product = "gold" -> _generate_gold_push(a)
      [] OTHER -> _generate_default_push(a)

\* Display names: "Karta dlya puteshestvij" = "Карта для путешествий",
\* "Premialnaya karta" = "Премиальная карта", "Kreditnaya karta" = "Кредитная
\* карта", "Obmen valyut" = "Обмен валют", "Kredit nalichnymi" = "Кредит
\* наличными", "Depozit multivalyutnyj" = "Депозит мультивалютный", "Depozit
\* sberegatelnyj" = "Депозит сберегательный", "Depozit nakopitelnyj" =
\* "Депозит накопительный", "Investicii" = "Инвестиции", "Zolotye slitki" =
\* "Золотые слитки"
\* Mutant: the key of the gold entry is misspelt, so gold gets the default
\* name
_get_product_name_gold_misspelt(product_key) ==
    CASE product_key = "travel_card" -> "Karta dlya puteshestvij"
      [] product_key = "premium_card" -> "Premialnaya karta"
      [] product_key = "credit_card" -> "Kreditnaya karta"
      [] product_key = "fx_exchange" -> "Obmen valyut"
      [] product_key = "cash_loan" -> "Kredit nalichnymi"
      [] product_key = "multi_deposit" -> "Depozit multivalyutnyj"
      [] product_key = "savings_deposit" -> "Depozit sberegatelnyj"
      [] product_key = "accumulative_deposit" -> "Depozit nakopitelnyj"
      [] product_key = "investments" -> "Investicii"
      [] OTHER -> "Depozit sberegatelnyj"

_get_product_name(product_key) ==
    CASE product_key = "travel_card" -> "Karta dlya puteshestvij"
      [] product_key = "premium_card" -> "Premialnaya karta"
      [] product_key = "credit_card" -> "Kreditnaya karta"
      [] product_key = "fx_exchange" -> "Obmen valyut"
      [] product_key = "cash_loan" -> "Kredit nalichnymi"
      [] product_key = "multi_deposit" -> "Depozit multivalyutnyj"
      [] product_key = "savings_deposit" -> "Depozit sberegatelnyj"
      [] product_key = "accumulative_deposit" -> "Depozit nakopitelnyj"
      [] product_key = "investments" -> "Investicii"
      [] product_key = "gold" -> "Zolotye slitki"
      [] OTHER -> "Depozit sberegatelnyj"


----------------------------------------------------------------------------
(* The batch: process_all_clients and save_results *)

\* A client code as the tables hold it.  The client_code columns are text
\* (dtype object, as read from a file with a non-numeric code): the cell
\* Code(k, TRUE) is the literal "k", Code(k, FALSE) the literal "kx".
Code(k, numeric) == [k |-> k, numeric |-> numeric]

Codes == {Code(k, b) : k \in 1..MaxCode, b \in BOOLEAN}

\* int(client_code): the number a numeric literal denotes; ValueError on
\* any other literal
int_raises(client_code) == ~client_code.numeric
int(client_code) == client_code.k

\* "k" < "kx" < "k+1" in the order of str
CodeLess(c, d) == c.k < d.k \/ (c.k = d.k /\ c.numeric /\ ~d.numeric)

\* sorted(all_client_codes)
RECURSIVE sorted(_)
sorted(S) ==
    IF S = {} THEN <<>>
    ELSE LET m == CHOOSE x \in S : \A y \in S \ {x} : CodeLess(x, y)
         IN <<m>> \o sorted(S \ {m})

\* the set all_client_codes of process_all_clients
all_client_codes(cdf, tdf, fdf) ==
    DOMAIN cdf \cup {c \in DOMAIN tdf : tdf[c] # <<>>}
               \cup {c \in DOMAIN fdf : fdf[c] # <<>>}

Recommendation(code, product, push) ==
    [client_code |-> code, product |-> product, push_notification |-> push]

\* The record the except branch appends: "Sberegatelnyj depozit" =
\* "Сберегательный депозит", and a message without the client's name
except_recommendation(client_code) ==
    Recommendation(int(client_code), "Sberegatelnyj depozit",
                   Plain("except_generic", <<>>))

\* The body of the try block for one client, up to the record it appends
try_analysis(cdf, tdf, fdf, c) == analyze_client(cdf, tdf, fdf, c)
try_scores(cdf, tdf, fdf, c) == calculate_product_scores(try_analysis(cdf, tdf, fdf, c))
try_product(cdf, tdf, fdf, c) == select_best_product(try_scores(cdf, tdf, fdf, c))
try_push(cdf, tdf, fdf, c) ==
    generate_push_notification(try_analysis(cdf, tdf, fdf, c),
                               try_product(cdf, tdf, fdf, c))

\* Mutant: the name of the message is read from the analysis the previous
\* iteration left behind (state shared between clients)
try_recommendation_shared(cdf, tdf, fdf, c) ==
    Recommendation(int(c), _get_product_name(try_product(cdf, tdf, fdf, c)),
                   [try_push(cdf, tdf, fdf, c) EXCEPT
                       !.name = IF Truthy(analysis) THEN analysis.name ELSE @])

try_recommendation(cdf, tdf, fdf, c) ==
    Recommendation(int(c), _get_product_name(try_product(cdf, tdf, fdf, c)),
                   try_push(cdf, tdf, fdf, c))

\* the try block raises before it reaches the append
try_raises(cdf, tdf, fdf, c) ==
    \/ scores_raise(try_analysis(cdf, tdf, fdf, c))
    \/ int_raises(c)

\* df.sort_values('client_code'): the rows in ascending client_code order;
\* the default sort is not stable, rows of equal code come in any order
InsertByCode(s, r) ==
    {SubSeq(s, 1, i) \o <<r>> \o SubSeq(s, i + 1, Len(s)) :
        i \in {k \in 0..Len(s) :
                 /\ \A j \in 1..k : s[j].client_code <= r.client_code
                 /\ \A j \in (k + 1)..Len(s) : s[j].client_code >= r.client_code}}

\* Mutant: the sort_values call is left out, the rows are written as appended
sort_values_skipped(recs) == {recs}

\* Mutant: the rows are written in an order the tables do not determine
sort_values_any_order(recs) ==
    {[i \in 1..Len(recs) |-> recs[p[i]]] :
        p \in {q \in [1..Len(recs) -> 1..Len(recs)] :
                 \A i, j \in 1..Len(recs) : q[i] = q[j] => i = j}}

RECURSIVE sort_values(_)
sort_values(recs) ==
    IF recs = <<>> THEN {<<>>}
    ELSE UNION {InsertByCode(s, Head(recs)) : s \in sort_values(Tail(recs))}

NoLocals ==
    /\ analysis = EmptyDict
    /\ scores = <<>>
    /\ best_product = "None"
    /\ push_text = Plain("None", <<>>)
    /\ client_transactions = Frame(<<>>, TransactionColumns)
    /\ client_transfers = Frame(<<>>, TransferColumns)

\* process_all_clients up to the for loop: collect the codes, return at once
\* when there are none
ProcessAllClients ==
    /\ pc = "idle"
    /\ calls < MaxCalls
    /\ calls' = calls + 1
    /\ LET codes == all_client_codes(clients_df, transactions_df, transfers_df)
       IN IF codes = {}
          THEN pc' = "idle" /\ queue' = <<>>
          ELSE pc' = "loop" /\ queue' = sorted(codes)
    /\ UNCHANGED <<tables, frames, recommendations, locals, written>>

\* process_all_clients with the loop order left open: the codes are taken in
\* any order instead of sorted(all_client_codes)
Orders(S) ==
    {q \in [1..Cardinality(S) -> S] : \A i, j \in 1..Cardinality(S) : q[i] = q[j] => i = j}

ProcessAllClientsAnyOrder ==
    /\ pc = "idle"
    /\ calls < MaxOpenCalls
    /\ calls' = calls + 1
    /\ LET codes == all_client_codes(clients_df, transactions_df, transfers_df)
       IN IF codes = {}
          THEN pc' = "idle" /\ queue' = <<>>
          ELSE pc' = "loop" /\ queue' \in Orders(codes)
    /\ UNCHANGED <<tables, frames, recommendations, locals, written>>

\* what every iteration does after its try/except: the next code, or the
\* return after the last one
NextIteration ==
    /\ queue' = Tail(queue)
    /\ pc' = IF Tail(queue) = <<>> THEN "idle" ELSE "loop"

\* one iteration of the for loop whose try block runs to its end
LoopBody ==
    /\ pc = "loop"
    /\ LET c == Head(queue)
       IN /\ ~try_raises(clients_df, transactions_df, transfers_df, c)
          /\ analysis' = try_analysis(clients_df, transactions_df, transfers_df, c)
          /\ scores' = try_scores(clients_df, transactions_df, transfers_df, c)
          /\ best_product' = try_product(clients_df, transactions_df, transfers_df, c)
          /\ push_text' = try_push(clients_df, transactions_df, transfers_df, c)
          /\ recommendations' =
                Append(recommendations,
                       try_recommendation(clients_df, transactions_df,
                                          transfers_df, c))
    /\ NextIteration
    /\ UNCHANGED <<tables, frames, calls, written>>

\* one iteration whose try block raises and whose except branch appends the
\* default recommendation
LoopBodyExcept ==
    /\ pc = "loop"
    /\ LET c == Head(queue)
       IN /\ try_raises(clients_df, transactions_df, transfers_df, c)
          /\ ~int_raises(c)
          /\ analysis' = try_analysis(clients_df, transactions_df, transfers_df, c)
          /\ recommendations' = Append(recommendations, except_recommendation(c))
    /\ NextIteration
    /\ UNCHANGED <<tables, frames, calls, scores, best_product, push_text, written>>

\* one iteration whose except branch raises itself: int(client_code) fails
\* in the try block and again in the handler, and the exception leaves
\* process_all_clients
LoopBodyRaise ==
    /\ pc = "loop"
    /\ LET c == Head(queue)
       IN /\ int_raises(c)
          /\ analysis' = try_analysis(clients_df, transactions_df, transfers_df, c)
          /\ IF scores_raise(analysis')
             THEN UNCHANGED <<scores, best_product, push_text>>
             ELSE /\ scores' = try_scores(clients_df, transactions_df, transfers_df, c)
                  /\ best_product' =
                        try_product(clients_df, transactions_df, transfers_df, c)
                  /\ push_text' = try_push(clients_df, transactions_df, transfers_df, c)
    /\ pc' = "raised"
    /\ UNCHANGED <<tables, frames, recommendations, queue, calls, written>>

\* save_results: nothing is written when there are no recommendations
SaveResults ==
    /\ pc = "idle"
    /\ IF recommendations = <<>>
       THEN UNCHANGED written
       ELSE written' \in sort_values(recommendations)
    /\ UNCHANGED <<tables, frames, recommendations, pc, queue, calls, locals>>


----------------------------------------------------------------------------
(* The loaded tables of the batch runs *)

\* What the tables of a small batch hold for one code: the client row (none
\* or one), the transactions and the transfers.  The ages of the client
\* rows are int or str, the same in every row.
BatchProfiles(dtype) ==
    LET low  == ClientRow(50000, [dtype |-> dtype, v |-> 40])
        high == ClientRow(600000, [dtype |-> dtype, v |-> 40])
        taxi == Txn("Taksi", 40000, "KZT")
        pay  == Transfer("salary_in", "in", 60000)
        P(client, trans, transfers) ==
            [client |-> client, trans |-> trans, transfers |-> transfers]
    IN {P(<<>>, <<>>, <<>>), P(<<low>>, <<>>, <<>>), P(<<high>>, <<>>, <<>>),
        P(<<high>>, <<taxi>>, <<>>), P(<<>>, <<taxi>>, <<>>),
        P(<<>>, <<>>, <<pay>>)}

InitState ==
    /\ recommendations = <<>>
    /\ pc = "idle"
    /\ queue = <<>>
    /\ calls = 0
    /\ written = <<>>
    /\ NoLocals

\* a freshly constructed generator with its tables loaded
Init ==
    /\ \E nonnum \in SUBSET (1..MaxCode), dtype \in {"int", "str"} :
       \E profile \in [1..MaxCode -> BatchProfiles(dtype)] :
         LET code(k) == Code(k, k \notin nonnum)
             held(c) == c = code(c.k)
         IN /\ clients_df =
                  [c \in {code(k) : k \in {j \in 1..MaxCode : profile[j].client # <<>>}}
                      |-> profile[c.k].client[1]]
            /\ transactions_df =
                  [c \in Codes |-> IF held(c) THEN profile[c.k].trans ELSE <<>>]
            /\ transfers_df =
                  [c \in Codes |-> IF held(c) THEN profile[c.k].transfers ELSE <<>>]
    /\ InitState

Next ==
    \/ ProcessAllClients
    \/ LoopBody
    \/ LoopBodyExcept
    \/ LoopBodyRaise
    \/ SaveResults

Spec == Init /\ [][Next]_vars

NextAnyOrder ==
    \/ ProcessAllClientsAnyOrder
    \/ LoopBody
    \/ LoopBodyExcept
    \/ LoopBodyRaise
    \/ SaveResults

SpecAnyOrder == Init /\ [][NextAnyOrder]_vars


----------------------------------------------------------------------------
(* One client, step by step: the calls of the try block of the loop body *)

TheClient == Code(1, TRUE)

\* the rows the tables of the one-client runs are drawn from
ClientRows ==
    {ClientRow(50000, IntCell(40)), ClientRow(300000, IntCell(40)),
     ClientRow(600000, IntCell(30)), ClientRow(600000, IntCell(40)),
     ClientRow(600000, IntCell(50)), ClientRow(1200000, IntCell(40)),
     ClientRow(2500000, IntCell(40))}

TxnRows ==
    {Txn("Taksi", 40000, "KZT"), Txn("Produkty pitaniya", 40000, "KZT"),
     Txn("Produkty pitaniya", 10000, "USD"), Txn("Edim doma", 40000, "KZT"),
     Txn("Kafe i restorany", 150000, "KZT")}

TransferRows ==
    {Transfer("salary_in", "in", 60000), Transfer("loan_payment_out", "out", 60000),
     Transfer("fx_buy", "out", 300000)}

OnlyTheClient(rows) == [c \in Codes |-> IF c = TheClient THEN rows ELSE <<>>]

\* Two clients of the acceptance examples: a premium client with balance
\* 2,000,000 whose transfers total 12,000,000, and a standard client with
\* balance 50,000 without rows
PremiumExampleClient == ClientRow(2000000, IntCell(40))

PremiumExampleTransfers ==
    <<Transfer("salary_in", "in", 6000000), Transfer("p2p_out", "out", 6000000)>>

StandardExampleClient ==
    [ClientRow(50000, IntCell(40)) EXCEPT !.status = "Standartnyj klient"]

InitClient ==
    /\ \/ /\ clients_df \in
                {EmptyDict} \cup {[c \in {TheClient} |-> r] : r \in ClientRows}
          /\ \E rows \in SeqsUpTo(TxnRows, MaxTrans) :
                transactions_df = OnlyTheClient(rows)
          /\ \E rows \in SeqsUpTo(TransferRows, MaxTransfers) :
                transfers_df = OnlyTheClient(rows)
       \/ /\ clients_df = [c \in {TheClient} |-> PremiumExampleClient]
          /\ \E rows \in SeqsUpTo(TxnRows, MaxTrans) :
                transactions_df = OnlyTheClient(rows)
          /\ transfers_df = OnlyTheClient(PremiumExampleTransfers)
       \/ /\ clients_df = [c \in {TheClient} |-> StandardExampleClient]
          /\ transactions_df = OnlyTheClient(<<>>)
          /\ transfers_df = OnlyTheClient(<<>>)
    /\ recommendations = <<>>
    /\ queue = <<TheClient>>
    /\ calls = 0
    /\ written = <<>>
    /\ NoLocals
    \* the try block starts at analyze_client; select_best_product is also
    \* called on the empty dict
    /\ \/ pc = "analyze"
       \/ /\ pc = "select"
          /\ all_client_codes(clients_df, transactions_df, transfers_df) = {}

\* Mutant: the analysis takes the client's transactions out of the table
\* (an in-place drop of the rows it has read)
AnalyzeClient_consumes_rows ==
    /\ pc = "analyze"
    /\ analysis' = analyze_client(clients_df, transactions_df, transfers_df,
                                  Head(queue))
    /\ transactions_df' = [transactions_df EXCEPT ![Head(queue)] = <<>>]
    /\ pc' = "score"
    /\ UNCHANGED <<clients_df, transfers_df, frames, recommendations, queue,
                   calls, scores, best_product, push_text, written>>

AnalyzeClient ==
    /\ pc = "analyze"
    /\ analysis' = analyze_client(clients_df, transactions_df, transfers_df,
                                  Head(queue))
    /\ pc' = "score"
    /\ UNCHANGED <<tables, frames, recommendations, queue, calls, scores, best_product,
                   push_text, written>>

\* analyze_client called a second time for the same client, on the tables
\* the first call left
AnalyzeClientAgain ==
    /\ pc = "score"
    /\ analysis' = analyze_client(clients_df, transactions_df, transfers_df,
                                  Head(queue))
    /\ pc' = "score_again"
    /\ UNCHANGED <<tables, frames, recommendations, queue, calls, scores, best_product,
                   push_text, written>>

CalculateProductScores ==
    /\ pc \in {"score", "score_again"}
    /\ ~scores_raise(analysis)
    /\ scores' = calculate_product_scores(analysis)
    /\ pc' = "select"
    /\ UNCHANGED <<tables, frames, recommendations, queue, calls, analysis, best_product,
                   push_text, written>>

SelectBestProduct ==
    /\ pc = "select"
    /\ best_product' = select_best_product(scores)
    /\ pc' = IF scores = <<>> THEN "selected" ELSE "render"
    /\ UNCHANGED <<tables, frames, recommendations, queue, calls, analysis, scores,
                   push_text, written>>

GeneratePushNotification ==
    /\ pc = "render"
    /\ push_text' = generate_push_notification(analysis, best_product)
    /\ pc' = "rendered"
    /\ UNCHANGED <<tables, frames, recommendations, queue, calls, analysis, scores,
                   best_product, written>>

NextClient ==
    \/ AnalyzeClient
    \/ AnalyzeClientAgain
    \/ CalculateProductScores
    \/ SelectBestProduct
    \/ GeneratePushNotification

SpecClient == InitClient /\ [][NextClient]_vars


----------------------------------------------------------------------------
(* src/main.py: analyze_clients and its benefit functions.                 *)
(* A benefit is a float in the source; here it is the exact amount in      *)
(* thousandths of a tenge, the rates being numbers of thousandths.  The    *)
(* locals of the loop are held in the variables of the same role:          *)
(* scores is all_benefits (items in insertion order), best_product,        *)
(* push_text, recommendations; written is recommendations.csv.             *)

FX_RATES == [c \in {"USD", "EUR", "KZT"} |->
                CASE c = "USD" -> 450 [] c = "EUR" -> 500 [] OTHER -> 1]

\* rates, in thousandths
TRAVEL_CARD_CASHBACK_RATE == 70
PREMIUM_CARD_JEWELRY_CASHBACK_RATE == 40
CREDIT_CARD_CASHBACK_RATE == 30
FX_SAVING_RATE == 5
SAVINGS_DEPOSIT_RATE == 35
ACCUMULATION_DEPOSIT_RATE == 30
PREMIUM_TIER_BALANCE_THRESHOLD == 1000000
PREMIUM_TIER_CASHBACK_RATE == 20
BASE_TIER_CASHBACK_RATE == 10
\* fees, in tenge
ATM_FEE_SAVING == 500
P2P_FEE_SAVING == 150
score_to_money_factor == 2500

\* a number of tenge, in thousandths
Tenge(n) == n * 1000

\* row['amount'] * FX_RATES.get(row['currency'], 1)
amount_kzt(row) == row.amount * FX_RATES[row.currency]

AmountsKzt(rows) == [i \in 1..Len(rows) |-> amount_kzt(rows[i])]

get_spend_for_categories(transactions, categories) ==
    IF transactions = <<>> THEN 0
    ELSE SeqSum(AmountsKzt(SelectSeq(transactions,
                                     LAMBDA r : r.category \in categories)))

\* The argument of get_spend_for_categories after the call: the column
\* amount_kzt is assigned to it unless it is empty
get_spend_for_categories_arg(transactions) ==
    IF transactions.rows = <<>> THEN transactions
    ELSE [transactions EXCEPT !.columns = @ \cup {"amount_kzt"}]

\* Mutant: get_spend_for_categories is called on the argument itself
calculate_travel_card_benefit_arg_in_place(transactions) ==
    get_spend_for_categories_arg(transactions)

\* The argument of calculate_travel_card_benefit after the call:
\* get_spend_for_categories acts on transactions.copy()
calculate_travel_card_benefit_arg(transactions) ==
    LET copy == get_spend_for_categories_arg(transactions)
    IN transactions

\* The argument transactions of calculate_premium_card_benefit after the
\* call: both calls of get_spend_for_categories act on transactions.copy()
calculate_premium_card_benefit_arg(transactions) ==
    LET copy1 == get_spend_for_categories_arg(transactions)
        copy2 == get_spend_for_categories_arg(transactions)
    IN transactions

\* The argument of calculate_credit_card_benefit after the call: the column
\* amount_kzt is assigned to it unless it is empty
calculate_credit_card_benefit_arg(transactions) ==
    IF transactions.rows = <<>> THEN transactions
    ELSE [transactions EXCEPT !.columns = @ \cup {"amount_kzt"}]

calculate_travel_card_benefit(transactions) ==
    get_spend_for_categories(transactions, {"Puteshestviya", "Taksi", "Oteli"})
        * TRAVEL_CARD_CASHBACK_RATE

main_premium_categories ==
    {"Yuvelirnye ukrasheniya", "Kosmetika i Parfyumeriya", "Kafe i restorany"}

CountType(transfers, t) == Len(SelectSeq(transfers, LAMBDA r : r.type = t))

calculate_premium_card_benefit(profile, transactions, transfers) ==
    LET balance == profile.avg_monthly_balance_KZT
        tier_rate == IF balance >= PREMIUM_TIER_BALANCE_THRESHOLD
                     THEN PREMIUM_TIER_CASHBACK_RATE
                     ELSE BASE_TIER_CASHBACK_RATE
        all_categories == {transactions[i].category : i \in 1..Len(transactions)}
        non_premium_categories == all_categories \ main_premium_categories
        tier_cashback ==
            get_spend_for_categories(transactions, non_premium_categories) * tier_rate
        premium_cashback ==
            get_spend_for_categories(transactions, main_premium_categories)
                * PREMIUM_CARD_JEWELRY_CASHBACK_RATE
        saved_fees == CountType(transfers, "atm_withdrawal") * ATM_FEE_SAVING
                      + CountType(transfers, "p2p_out") * P2P_FEE_SAVING
    IN tier_cashback + premium_cashback + Tenge(saved_fees)

\* the summed amount_kzt per category
category_sums_kzt(transactions) ==
    [c \in {transactions[i].category : i \in 1..Len(transactions)} |->
        get_spend_for_categories(transactions, {c})]

top_3_cats(transactions) ==
    nlargest(GroupKeys(transactions), category_sums_kzt(transactions), 3)

calculate_credit_card_benefit(transactions) ==
    IF transactions = <<>> THEN 0
    ELSE LET top == top_3_cats(transactions)
             top_3_spend ==
                 get_spend_for_categories(transactions,
                                          {top[i] : i \in 1..Len(top)})
             online_spend ==
                 get_spend_for_categories(transactions, online_categories)
         IN (top_3_spend + online_spend) * CREDIT_CARD_CASHBACK_RATE

calculate_fx_benefit(transfers) ==
    SeqSum(Amounts(SelectSeq(transfers, LAMBDA r : r.type \in {"fx_buy", "fx_sell"})))
        * FX_SAVING_RATE

score_cash_loan_need(profile, transfers) ==
    LET inflows  == SeqSum(Amounts(SelectSeq(transfers, LAMBDA r : r.direction = "in")))
        outflows == SeqSum(Amounts(SelectSeq(transfers, LAMBDA r : r.direction = "out")))
    IN (IF profile.avg_monthly_balance_KZT < 50000 THEN 1 ELSE 0)
       \* outflows > inflows * 1.5
       + (IF 2 * outflows > 3 * inflows /\ inflows > 0 THEN 2 ELSE 0)
       + (IF CountType(transfers, "loan_payment_out") > 0 THEN 1 ELSE 0)

score_multicurrency_deposit_need(profile, transactions, transfers) ==
    (IF profile.avg_monthly_balance_KZT > 300000 THEN 1 ELSE 0)
    + (IF SelectSeq(transfers, LAMBDA r : r.type \in {"fx_buy", "fx_sell"}) # <<>>
       THEN 2 ELSE 0)
    + (IF SelectSeq(transactions, LAMBDA r : r.currency # "KZT") # <<>>
       THEN 2 ELSE 0)

calculate_savings_deposit_benefit(profile) ==
    IF profile.status # "Student" /\ profile.avg_monthly_balance_KZT > 750000
    THEN profile.avg_monthly_balance_KZT * SAVINGS_DEPOSIT_RATE
    ELSE 0

calculate_accumulation_deposit_benefit(profile, transfers) ==
    IF CountType(transfers, "deposit_topup_out") > 0
       /\ profile.avg_monthly_balance_KZT > 50000
    THEN profile.avg_monthly_balance_KZT * ACCUMULATION_DEPOSIT_RATE
    ELSE 0

score_investment_need(profile) ==
    IF profile.avg_monthly_balance_KZT > 500000 THEN 3
    ELSE IF profile.avg_monthly_balance_KZT > 200000 THEN 2
    ELSE IF profile.avg_monthly_balance_KZT > 100000 THEN 1
    ELSE 0

score_gold_need(profile) ==
    IF profile.avg_monthly_balance_KZT > 2000000 THEN 2
    ELSE IF profile.status = "Premialnyj klient" THEN 1
    ELSE 0

\* all_benefits, as the sequence of its items in insertion order, under the
\* display names (transliterated as for _get_product_name)
all_benefits(profile, transactions, transfers) ==
    <<Item("Karta dlya puteshestvij", calculate_travel_card_benefit(transactions)),
      Item("Premialnaya karta",
           calculate_premium_card_benefit(profile, transactions, transfers)),
      Item("Kreditnaya karta", calculate_credit_card_benefit(transactions)),
      Item("Obmen valyut", calculate_fx_benefit(transfers)),
      Item("Depozit sberegatelnyj", calculate_savings_deposit_benefit(profile)),
      Item("Depozit nakopitelnyj",
           calculate_accumulation_deposit_benefit(profile, transfers)),
      Item("Kredit nalichnymi",
           Tenge(score_cash_loan_need(profile, transfers) * score_to_money_factor)),
      Item("Depozit multivalyutnyj",
           Tenge(score_multicurrency_deposit_need(profile, transactions, transfers)
                    * score_to_money_factor)),
      Item("Investicii", Tenge(score_investment_need(profile) * score_to_money_factor)),
      Item("Zolotye slitki", Tenge(score_gold_need(profile) * score_to_money_factor))>>

\* {k: v for k, v in all_benefits.items() if v > 0}
positive_benefits(benefits) == SelectSeq(benefits, LAMBDA it : it.score > 0)

\* "Net podhodyashchego produkta" = "Нет подходящего продукта"
NoProduct == "Net podhodyashchego produkta"

\* Mutant: of the keys of the largest value the last one is taken
main_best_product_last_max(benefits) ==
    LET pos == positive_benefits(benefits)
    IN IF pos = <<>> THEN Item(NoProduct, 0)
       ELSE pos[CHOOSE i \in 1..Len(pos) :
                   /\ \A j \in 1..Len(pos) : pos[j].score <= pos[i].score
                   /\ \A j \in (i + 1)..Len(pos) : pos[j].score < pos[i].score]

\* max(positive_benefits, key=positive_benefits.get): the first key, in
\* insertion order, of the largest value
main_best_product(benefits) ==
    LET pos == positive_benefits(benefits)
    IN IF pos = <<>> THEN Item(NoProduct, 0)
       ELSE pos[CHOOSE i \in 1..Len(pos) :
                   /\ \A j \in 1..Len(pos) : pos[j].score <= pos[i].score
                   /\ \A j \in 1..(i - 1) : pos[j].score < pos[i].score]

\* main.generate_push_notification; the argument transactions is
\* client_transactions.copy(), whose columns are those of transactions.csv:
\* has_amount_kzt says whether the column amount_kzt is among them.  The
\* message is the template and the values interpolated into it.
main_generate_push_notification(client, product, benefit, transactions, has_amount_kzt) ==
    LET travel_rows == SelectSeq(transactions,
                                 LAMBDA r : r.category \in travel_categories)
        top_cats == top_3_cats(transactions)
        foreign == SelectSeq(transactions, LAMBDA r : r.currency # "KZT")
    IN CASE product = "Karta dlya puteshestvij" ->
              IF transactions # <<>> /\ has_amount_kzt /\ travel_rows # <<>>
              THEN Msg("main_travel_month", client.name, benefit, <<>>, "", <<>>)
              ELSE Plain("main_travel_generic", client.name)
         [] product = "Premialnaya karta" -> Plain("main_premium", client.name)
         [] product = "Kreditnaya karta" ->
              IF transactions # <<>> /\ Len(top_cats) >= 3
              THEN Msg("main_credit_top", client.name, <<>>, <<>>, "", top_cats)
              ELSE Plain("main_credit_generic", client.name)
         [] product \in {"Obmen valyut", "Depozit multivalyutnyj"} ->
              Msg("main_fx", client.name, <<>>, <<>>,
                  IF foreign # <<>> THEN foreign[1].currency ELSE "valyute", <<>>)
         [] product \in {"Depozit sberegatelnyj", "Depozit nakopitelnyj"} ->
              Plain("main_deposit", client.name)
         [] product = "Investicii" -> Plain("main_investments", client.name)
         [] product = "Kredit nalichnymi" -> Plain("main_cash_loan", client.name)
         [] product = "Zolotye slitki" -> Plain("main_gold", client.name)
         [] OTHER -> Plain("main_special_offer", client.name)

\* one iteration of the loop over clients_df.iterrows(): the benefits, the
\* selection, the message, and the record, appended only when a product was
\* found
AnalyzeClientsIteration ==
    /\ pc = "main_loop"
    /\ queue # <<>>
    /\ LET client_code == Head(queue)
           client_profile == clients_df[client_code]
           \* the client's rows of the two tables
           selected_transactions ==
               Frame(transactions_df[client_code], TransactionColumns)
           selected_transfers ==
               Frame(transfers_df[client_code], TransferColumns)
           benefits == all_benefits(client_profile, selected_transactions.rows,
                                    selected_transfers.rows)
           \* client_transactions after the ten calls: the travel and the
           \* premium function get the table itself, the credit function
           \* a copy, which it changes, and no other function assigns to
           \* its arguments
           credit_copy == calculate_credit_card_benefit_arg(selected_transactions)
           after_benefits ==
               calculate_premium_card_benefit_arg(
                   calculate_travel_card_benefit_arg(selected_transactions))
           best == main_best_product(benefits)
           \* generate_push_notification gets client_transactions.copy()
           push_notification ==
               main_generate_push_notification(client_profile, best.product,
                                               best.score, after_benefits.rows,
                                               "amount_kzt" \in after_benefits.columns)
       IN /\ client_transactions' = after_benefits
          /\ client_transfers' = selected_transfers
          /\ scores' = benefits
          /\ best_product' = best.product
          /\ push_text' = push_notification
          /\ recommendations' =
                IF best.product # NoProduct
                THEN Append(recommendations,
                            Recommendation(client_code, best.product,
                                           push_notification))
                ELSE recommendations
    /\ queue' = Tail(queue)
    /\ UNCHANGED <<tables, pc, calls, analysis, written>>

\* after the loop: recommendations.csv is written when there is a record
AnalyzeClientsWrite ==
    /\ pc = "main_loop"
    /\ queue = <<>>
    /\ written' = recommendations
    /\ pc' = "main_done"
    /\ UNCHANGED <<tables, frames, recommendations, queue, calls, locals>>

\* What the three files hold for one client code: the client row (none or
\* one), the transactions and the transfers
MainProfiles ==
    LET row(st, bal) == [ClientRow(bal, IntCell(40)) EXCEPT !.status = st]
        standard == "Standartnyj klient"
        taxi == Txn("Taksi", 40000, "KZT")
        usd  == Txn("Produkty pitaniya", 10000, "USD")
        pay  == Transfer("salary_in", "in", 60000)
        p2p  == Transfer("p2p_out", "out", 60000)
        P(client, trans, transfers) ==
            [client |-> client, trans |-> trans, transfers |-> transfers]
    IN {P(<<row(standard, 80000)>>, <<>>, <<>>),
        P(<<row(standard, 80000)>>, <<taxi>>, <<>>),
        P(<<row(standard, 80000)>>, <<taxi, usd>>, <<p2p>>),
        P(<<row(standard, 80000)>>, <<>>, <<pay>>),
        P(<<row(standard, 80000)>>, <<>>, <<p2p>>),
        P(<<row(standard, 1200000)>>, <<usd>>, <<>>),
        P(<<row("Premialnyj klient", 150000)>>, <<>>, <<>>),
        P(<<row("Student", 30000)>>, <<>>, <<pay>>),
        P(<<>>, <<taxi>>, <<>>)}

\* analyze_clients after the three files are read: the loop is about to
\* take the rows of clients_df in file order
InitMain ==
    /\ \E profile \in [1..MaxCode -> MainProfiles] :
         /\ clients_df =
               [c \in {Code(k, TRUE) : k \in {j \in 1..MaxCode : profile[j].client # <<>>}}
                   |-> profile[c.k].client[1]]
         /\ transactions_df =
               [c \in Codes |-> IF c.numeric THEN profile[c.k].trans ELSE <<>>]
         /\ transfers_df =
               [c \in Codes |-> IF c.numeric THEN profile[c.k].transfers ELSE <<>>]
    /\ recommendations = <<>>
    /\ pc = "main_loop"
    /\ queue = sorted(DOMAIN clients_df)
    /\ calls = 0
    /\ written = <<>>
    /\ NoLocals

NextMain ==
    \/ AnalyzeClientsIteration
    \/ AnalyzeClientsWrite

SpecMain == InitMain /\ [][NextMain]_vars


----------------------------------------------------------------------------
(* Loading: _validate_data on the tables as read from the files.  A cell   *)
(* of a numeric column as read is a number (also a numeric string), a text *)
(* that is not a number, or missing (NaN).  The rows of the model carry no *)
(* date, so the two to_datetime assignments have nothing to act on.        *)

NumberCell(n) == [kind |-> "number", v |-> n]
TextCell == [kind |-> "text"]
MissingCell == [kind |-> "NaN"]

\* the cells the columns of the loaded files are drawn from
RawCells == {NumberCell(40000), NumberCell(0), NumberCell(-5000), TextCell,
             MissingCell}

\* pd.to_numeric(x, errors='coerce')
to_numeric(cell) == IF cell.kind = "number" THEN cell ELSE MissingCell

\* fillna(value)
fillna(cell, value) == IF cell.kind = "NaN" THEN value ELSE cell.v

\* the amount column of a table after to_numeric and fillna(0)
validated_amounts(rows) ==
    [i \in 1..Len(rows) |->
        [rows[i] EXCEPT !.amount = fillna(to_numeric(rows[i].amount), 0)]]

ValidateData ==
    /\ pc = "loaded"
    /\ transactions_df' = [c \in DOMAIN transactions_df |->
                              validated_amounts(transactions_df[c])]
    /\ transfers_df' = [c \in DOMAIN transfers_df |->
                           validated_amounts(transfers_df[c])]
    /\ clients_df' =
          [c \in DOMAIN clients_df |->
              [clients_df[c] EXCEPT !.avg_monthly_balance_KZT =
                  fillna(to_numeric(clients_df[c].avg_monthly_balance_KZT), 100000)]]
    /\ pc' = "idle"
    /\ UNCHANGED <<frames, recommendations, queue, calls, locals, written>>

\* the tables as load_data_from_folders has read them, before _validate_data
InitLoaded ==
    /\ \E cell \in RawCells :
          clients_df = [c \in {TheClient} |-> ClientRow(cell, IntCell(40))]
    /\ \E cells \in SeqsUpTo(RawCells, MaxTransfers) :
          transactions_df =
              OnlyTheClient([i \in 1..Len(cells) |-> Txn("Taksi", cells[i], "KZT")])
    /\ \E cells \in SeqsUpTo(RawCells, MaxTransfers) :
          transfers_df =
              OnlyTheClient([i \in 1..Len(cells) |->
                                Transfer("salary_in", "in", cells[i])])
    /\ recommendations = <<>>
    /\ queue = <<>>
    /\ calls = 0
    /\ written = <<>>
    /\ NoLocals
    /\ pc = "loaded"

NextLoaded == ValidateData

SpecLoaded == InitLoaded /\ [][NextLoaded]_vars


----------------------------------------------------------------------------
(* The feature extraction alone, on more transactions *)

InitExtract ==
    /\ clients_df \in {EmptyDict, [c \in {TheClient} |-> StandardExampleClient]}
    /\ \E rows \in SeqsUpTo(TxnRows, MaxCategoryTrans) :
          transactions_df = OnlyTheClient(rows)
    /\ transfers_df = OnlyTheClient(<<>>)
    /\ recommendations = <<>>
    /\ queue = <<TheClient>>
    /\ calls = 0
    /\ written = <<>>
    /\ NoLocals
    /\ pc = "analyze"

NextExtract ==
    \/ AnalyzeClient
    \/ AnalyzeClientAgain

SpecExtract == InitExtract /\ [][NextExtract]_vars


----------------------------------------------------------------------------
(* Properties of the selector, checked on SpecClient *)

\* the ten products in the order calculate_product_scores declares them
ProductOrder ==
    <<"travel_card", "premium_card", "credit_card", "fx_exchange", "cash_loan",
      "multi_deposit", "savings_deposit", "accumulative_deposit", "investments",
      "gold">>

Products == {ProductOrder[i] : i \in 1..Len(ProductOrder)}

AfterSelect == pc \in {"selected", "render", "rendered"}

AllAtMost20(sc) == \A i \in 1..Len(sc) : ScoreLeNum(sc[i].score, 20)

IsMax(sc, i) == \A j \in 1..Len(sc) : sc[j].score.num <= sc[i].score.num

\* C1: select_best_product returns one of the ten fixed products, for the
\* score maps of calculate_product_scores and for the empty map, and it
\* returns savings_deposit whenever every score is <= 20.
C1_SelectorInProductSet ==
    AfterSelect =>
        /\ best_product \in Products
        /\ AllAtMost20(scores) => best_product = "savings_deposit"

\* a score map with a positive score, none above 20, has been selected from
C1_Witness ==
    /\ pc = "render"
    /\ AllAtMost20(scores)
    /\ \E i \in 1..Len(scores) : scores[i].score.num > 0
    /\ best_product = "savings_deposit"

\* C2: when the maximum score is > 20 the product returned has that maximum
\* as its score; when the maximum is 20 or lower the product returned is
\* savings_deposit, whatever product holds the maximum.
C2_BestHasMaxScore ==
    (AfterSelect /\ scores # <<>>) =>
        \A m \in 1..Len(scores) :
            IsMax(scores, m) =>
                IF ScoreGtNum(scores[m].score, 20)
                THEN \E i \in 1..Len(scores) :
                        /\ scores[i].product = best_product
                        /\ ScoreEq(scores[i].score, scores[m].score)
                ELSE best_product = "savings_deposit"

\* the maximum is exactly 20, held by another product than savings_deposit
C2_Witness ==
    /\ pc = "render"
    /\ \E m \in 1..Len(scores) :
          /\ IsMax(scores, m)
          /\ scores[m].score.num = 20 * scores[m].score.den
          /\ scores[m].product # "savings_deposit"
          /\ \A i \in 1..Len(scores) :
                scores[i].product = "savings_deposit"
                    => ScoreGt(scores[m].score, scores[i].score)
    /\ best_product = "savings_deposit"

\* C3: the score map lists the products in the declared order, and among the
\* products that share a maximum > 20 the one declared first is returned.
C3_TieBreakDeclaredOrder ==
    (AfterSelect /\ scores # <<>>) =>
        /\ [i \in 1..Len(scores) |-> scores[i].product] = ProductOrder
        /\ \A m \in 1..Len(scores) :
              (/\ IsMax(scores, m)
               /\ ScoreGtNum(scores[m].score, 20)
               /\ \A j \in 1..(m - 1) : ~IsMax(scores, j))
              => best_product = scores[m].product

\* two products share a maximum > 20 and the earlier one has been returned
C3_Witness ==
    /\ pc = "render"
    /\ \E i, j \in 1..Len(scores) :
          /\ i < j
          /\ IsMax(scores, i) /\ IsMax(scores, j)
          /\ ScoreGtNum(scores[i].score, 20)
          /\ \A k \in 1..(i - 1) : ~IsMax(scores, k)
          /\ best_product = scores[i].product


----------------------------------------------------------------------------
(* Properties of the batch, checked on Spec and SpecAnyOrder *)

DiscoveredCodes == all_client_codes(clients_df, transactions_df, transfers_df)

\* the positions of the records of a client code
RecordsOf(c) ==
    {i \in 1..Len(recommendations) :
        ~int_raises(c) /\ recommendations[i].client_code = int(c)}

Last(q) == q[Len(q)]

\* C4: when the first call of process_all_clients on a fresh generator has
\* ended, recommendations holds exactly one record for every client code of
\* the three tables.
C4_OneRecordPerDiscoveredCode ==
    (calls = 1 /\ pc \in {"idle", "raised"}) =>
        /\ \A c \in DiscoveredCodes : Cardinality(RecordsOf(c)) = 1
        /\ Len(recommendations) = Cardinality(DiscoveredCodes)

\* C5: no failure of the processing of one client leaves
\* process_all_clients.
C5_NothingPropagates == pc # "raised"

\* C6: the record the except branch substitutes names the savings deposit
\* as _get_product_name names it.
C6_ExceptRecordIsFallback ==
    \A i \in 1..Len(recommendations) :
        recommendations[i].push_notification.template = "except_generic"
            => recommendations[i].product = _get_product_name("savings_deposit")

\* C7: for a client code without a row in clients_df the analysis is built
\* from the synthesized default client, and the client's record is the one
\* the try block scored.
C7_MissingClientScoredNormally ==
    (Truthy(analysis) /\ analysis.client_code \notin DOMAIN clients_df) =>
        /\ analysis.name = <<"Klient_", analysis.client_code>>
        /\ analysis.status = "Standartnyj klient"
        /\ analysis.age = IntCell(35)
        /\ analysis.city = "Almaty"
        /\ analysis.avg_balance = 100000
        /\ recommendations # <<>>
        /\ Last(recommendations) =
              Recommendation(int(analysis.client_code),
                             _get_product_name(best_product), push_text)
        /\ Last(recommendations).push_notification.template # "except_generic"

\* C8: recommendations holds at most one record per client code, after any
\* number of calls.
C8_AtMostOneRecordPerClient ==
    \A i, j \in 1..Len(recommendations) :
        recommendations[i].client_code = recommendations[j].client_code => i = j

\* C9: the rows save_results writes are in ascending client_code order.
C9_WrittenAscending ==
    \A i, j \in 1..Len(written) :
        i < j => written[i].client_code <= written[j].client_code

\* the records were appended in another order than the written one, and all
\* of them have been written
C9_Witness ==
    /\ written # <<>>
    /\ Len(written) = Len(recommendations)
    /\ \E i, j \in 1..Len(recommendations) :
          i < j /\ recommendations[i].client_code > recommendations[j].client_code

\* the record of one client as a loop in sorted order appends it
SortedOrderRecord(c) ==
    IF scores_raise(analyze_client(clients_df, transactions_df, transfers_df, c))
    THEN except_recommendation(c)
    ELSE try_recommendation(clients_df, transactions_df, transfers_df, c)

\* the records n calls in the order sorted(all_client_codes) append
RECURSIVE SortedOrderRecords(_)
SortedOrderRecords(n) ==
    IF n = 0 THEN <<>>
    ELSE LET q == sorted(DiscoveredCodes)
         IN SortedOrderRecords(n - 1) \o [i \in 1..Len(q) |-> SortedOrderRecord(q[i])]

FreshRunOutput == SortedOrderRecords(1)

\* C11: process_all_clients followed by save_results on a fresh generator
\* writes rows (products, messages and their order) that the clients,
\* transactions and transfers tables determine, so two fresh generators
\* loaded with identical tables write identical output.
C11_OutputDeterminedByTables ==
    (calls = 1 /\ written # <<>>) => written = FreshRunOutput

\* a fresh generator has written two rows, one of them from the except branch
C11_Witness ==
    /\ calls = 1
    /\ Len(written) >= 2
    /\ \E i, j \in 1..Len(written) :
          /\ written[i].push_notification.template = "except_generic"
          /\ written[j].push_notification.template # "except_generic"

----------------------------------------------------------------------------
(* Properties of the scores, checked on SpecClient *)

AfterScore == pc \in {"select", "render", "rendered"} /\ scores # <<>>

\* scores[p]
ScoreOf(sc, p) == sc[CHOOSE i \in 1..Len(sc) : sc[i].product = p].score

\* the balances the analysis of the state is varied over: the thresholds of
\* the three scores and their neighbours
Balances ==
    {0, 500000, 501000, 1000000, 1001000, 2000000, 2001000}

BalanceScored == {"premium_card", "investments", "gold"}

\* the analysis of the state with another balance
WithBalance(b) == [analysis EXCEPT !.avg_balance = b]

\* C12: of two analyses that differ only in avg_balance (and which
\* calculate_product_scores scores), the one with the larger balance has
\* premium_card, investments and gold scores at least as high.
C12_BalanceMonotone ==
    AfterScore =>
        \A b \in Balances :
            LET sc2 == calculate_product_scores(WithBalance(b))
            IN \A p \in BalanceScored :
                  /\ b >= analysis.avg_balance
                       => ScoreOf(sc2, p).num >= ScoreOf(scores, p).num
                  /\ b <= analysis.avg_balance
                       => ScoreOf(sc2, p).num <= ScoreOf(scores, p).num

\* a scored analysis for which a larger balance raises all three scores
C12_Witness ==
    /\ AfterScore
    /\ Truthy(analysis.transaction_stats)
    /\ \E b \in Balances :
          /\ b > analysis.avg_balance
          /\ \A p \in BalanceScored :
                ScoreOf(calculate_product_scores(WithBalance(b)), p).num
                    > ScoreOf(scores, p).num

\* the client of the state has no transactions and no transfers and has
\* been analysed, scored and selected for
EmptyClientSelected ==
    /\ AfterSelect
    /\ Truthy(analysis)
    /\ transactions_df[analysis.client_code] = <<>>
    /\ transfers_df[analysis.client_code] = <<>>

\* the feature bundle of a client without rows: no transaction and no
\* transfer statistics (every aggregate is read with its default), no FX
\* activity
NeutralBundle(a) ==
    /\ a.transaction_stats = EmptyDict
    /\ a.transfer_stats = EmptyDict
    /\ a.fx_activity = [fx_spend |-> 0, fx_volume |-> 0,
                        has_fx_activity |-> FALSE, primary_fx_currency |-> "None"]

\* "Student" = "Студент", "Zarplatnyj klient" = "Зарплатный клиент"
Statuses ==
    {"Student", "Zarplatnyj klient", "Premialnyj klient", "Standartnyj klient"}

Ages == {IntCell(20), IntCell(34), IntCell(44), IntCell(60),
         [dtype |-> "str", v |-> 40]}

LowBalances == {0, 50000, 99000, 100000, 150000, 200000}

\* the analysis of the state with another balance, age and status
WithProfile(b, g, st) ==
    [analysis EXCEPT !.avg_balance = b, !.age = g, !.status = st]

\* C13 as stated: for a client with zero transactions and zero transfers
\* the feature bundle is neutral and select_best_product returns
\* savings_deposit, for every balance, age and status.
C13_EmptyClientFallback ==
    EmptyClientSelected =>
        /\ NeutralBundle(analysis)
        /\ best_product = "savings_deposit"

\* C13 as amended: for a client with zero transactions and zero transfers
\* the feature bundle is neutral, and select_best_product returns
\* savings_deposit for every age and status when the balance is at most
\* 200000; above 200000 the balance alone gives a product a score > 20.
C13_EmptyClientFallbackLowBalance ==
    EmptyClientSelected =>
        /\ NeutralBundle(analysis)
        /\ analysis.avg_balance <= 200000 => best_product = "savings_deposit"
        /\ analysis.avg_balance > 200000 =>
              \E i \in 1..Len(scores) : ScoreGtNum(scores[i].score, 20)
        /\ \A b \in LowBalances, g \in Ages, st \in Statuses :
              select_best_product(calculate_product_scores(WithProfile(b, g, st)))
                  = "savings_deposit"

\* a client without rows and with a balance below the loan floor has been
\* selected for
C13_Witness ==
    /\ EmptyClientSelected
    /\ pc = "rendered"
    /\ analysis.avg_balance < 100000
    /\ best_product = "savings_deposit"

\* the client of the state is the premium client of the example: balance
\* 2,000,000, premium status, transfers totalling 12,000,000
PremiumExampleScored ==
    /\ AfterSelect
    /\ Truthy(analysis)
    /\ analysis.avg_balance = 2000000
    /\ analysis.status = "Premialnyj klient"
    /\ Truthy(analysis.transfer_stats)
    /\ analysis.transfer_stats.total_income + analysis.transfer_stats.total_expenses
          = 12000000

StandardExampleRendered ==
    /\ EmptyClientSelected
    /\ pc = "rendered"
    /\ analysis.avg_balance = 50000
    /\ analysis.status = "Standartnyj klient"

\* C15 as stated: for that client every score is <= 20, the selected
\* product is savings_deposit and the message is the generic template (the
\* one of _generate_default_push).
C15_StandardExampleGenericMessage ==
    StandardExampleRendered =>
        /\ AllAtMost20(scores)
        /\ best_product = "savings_deposit"
        /\ push_text = _generate_default_push(analysis)

\* C15 as amended: for that client every score is <= 20 (all are 0), the
\* selected product is savings_deposit and the message is the
\* savings-deposit template for balances up to 500,000, with the client's
\* name.
C15_StandardExampleSavingsMessage ==
    StandardExampleRendered =>
        /\ AllAtMost20(scores)
        /\ \A i \in 1..Len(scores) : scores[i].score.num = 0
        /\ best_product = "savings_deposit"
        /\ push_text = Plain("savings_generic", analysis.name)
        /\ push_text # _generate_default_push(analysis)

C15_Witness ==
    /\ StandardExampleRendered
    /\ clients_df[analysis.client_code] = StandardExampleClient
    /\ push_text.template = "savings_generic"

\* C18: every score of the map calculate_product_scores returns lies in
\* [0, 100], the amounts and the balance being non-negative.
C18_ScoresBounded ==
    AfterScore =>
        \A i \in 1..Len(scores) :
            /\ scores[i].score.den > 0
            /\ scores[i].score.num >= 0
            /\ ScoreLeNum(scores[i].score, 100)

\* the travel score of the client exceeded 100 (taxi spend only, FX
\* activity) and was stored as 100
C18_Witness ==
    /\ AfterScore
    /\ ScoreGtNum(travel_score(analysis), 100)
    /\ ScoreOf(scores, "travel_card") = Flat(analysis, 100)

\* the three conditions of the cash-loan bonuses, read off the client's
\* transfer rows and balance
LoanTransfers == transfers_df[analysis.client_code]

NetCashflowLow ==
    SeqSum(Amounts(SelectSeq(LoanTransfers, LAMBDA r : r.direction = "in")))
      - SeqSum(Amounts(SelectSeq(LoanTransfers, LAMBDA r : r.direction = "out")))
        < -50000

BalanceBelowFloor == analysis.avg_balance < 100000

HasLoanTransfer ==
    \E i \in 1..Len(LoanTransfers) :
        LoanTransfers[i].type \in loan_types /\ LoanTransfers[i].amount > 0

LoanBonuses ==
    (IF NetCashflowLow THEN 40 ELSE 0) + (IF BalanceBelowFloor THEN 30 ELSE 0)
        + (IF HasLoanTransfer THEN 30 ELSE 0)

\* C19 as stated: the cash_loan score is the sum of the three flat bonuses
\* (40, 30, 30), each added whenever its own condition holds, also for a
\* client with a balance below the floor and no transfers at all.
C19_LoanBonusesIndependent ==
    (AfterScore /\ Truthy(analysis)) =>
        ScoreOf(scores, "cash_loan") = Flat(analysis, LoanBonuses)

\* C19 as amended: for a client with at least one transfer the cash_loan
\* score is the sum of the three flat bonuses, each added whenever its own
\* condition holds, with no ratio term; for a client without transfers the
\* score is 0, whatever the balance.
C19_LoanBonusesWithTransfers ==
    (AfterScore /\ Truthy(analysis)) =>
        ScoreOf(scores, "cash_loan") =
            IF LoanTransfers # <<>> THEN Flat(analysis, LoanBonuses)
            ELSE Flat(analysis, 0)

\* a client with all three conditions (score 100)
C19_Witness ==
    /\ AfterScore /\ Truthy(analysis)
    /\ NetCashflowLow /\ BalanceBelowFloor /\ HasLoanTransfer
    /\ ScoreOf(scores, "cash_loan") = Flat(analysis, 100)

\* the number of transactions of the analysed client
TransactionCount == Len(transactions_df[analysis.client_code])

\* the bundle holds the volatility 0 and the savings score is the full
\* deposit base score, as for a client of low volatility
VolatilityZeroAndUsed ==
    /\ "spending_volatility" \in DOMAIN analysis.transaction_stats
    /\ analysis.transaction_stats.spending_volatility = ZeroVolatility
    /\ ScoreOf(scores, "savings_deposit") = deposit_base_score(analysis)

\* C21 as stated: the volatility of a client with one or no transaction is
\* 0, and the savings-deposit scorer uses that value when it decides on low
\* volatility.
C21_FewTransactionsZeroVolatility ==
    (AfterScore /\ Truthy(analysis) /\ TransactionCount < 2) =>
        VolatilityZeroAndUsed

\* C21 as amended: the volatility of a client with exactly one transaction
\* is 0 and the savings-deposit scorer uses it (low volatility, full base
\* score); a client without transactions has no volatility in its bundle
\* and the scorer treats it as not of low volatility (0.7 of the base
\* score).
C21_OneTransactionZeroVolatility ==
    (AfterScore /\ Truthy(analysis)) =>
        /\ TransactionCount = 1 => VolatilityZeroAndUsed
        /\ TransactionCount = 0 =>
              /\ analysis.transaction_stats = EmptyDict
              /\ ScoreOf(scores, "savings_deposit")
                    = Tenths(deposit_base_score(analysis), 7)

\* a client with one transaction and a balance that gives a deposit score
C21_Witness ==
    /\ AfterScore /\ Truthy(analysis)
    /\ TransactionCount = 1
    /\ ScoreGtNum(ScoreOf(scores, "savings_deposit"), 20)
    /\ VolatilityZeroAndUsed

\* the spending volatility of the analysed client is below 50000
VolatilityBelow50000 ==
    /\ TransactionCount > 0
    /\ analysis.transaction_stats.spending_volatility.num
          < 2500 * analysis.transaction_stats.spending_volatility.den

\* C26: when select_best_product returns savings_deposit for a score map of
\* calculate_product_scores, either every score is <= 20 or the client's
\* spending volatility is below 50000; otherwise the accumulative deposit
\* scores higher than the savings deposit.
C26_SavingsWinnerHasLowVolatility ==
    (AfterSelect /\ scores # <<>>) =>
        /\ best_product = "savings_deposit" =>
              AllAtMost20(scores) \/ VolatilityBelow50000
        /\ (~VolatilityBelow50000
             /\ ScoreGtNum(ScoreOf(scores, "savings_deposit"), 20)) =>
              ScoreGt(ScoreOf(scores, "accumulative_deposit"),
                      ScoreOf(scores, "savings_deposit"))

\* the savings deposit has won with a score above 20
C26_Witness ==
    /\ pc = "rendered"
    /\ best_product = "savings_deposit"
    /\ ScoreGtNum(ScoreOf(scores, "savings_deposit"), 20)
    /\ VolatilityBelow50000

\* C27: when select_best_product returns multi_deposit the client has FX
\* activity and a balance above 500000; at a balance of 500000 or less with
\* FX activity the fx_exchange score is at least 50 and above the
\* multi_deposit score.
C27_MultiDepositNeedsBalance ==
    (AfterSelect /\ scores # <<>>) =>
        /\ best_product = "multi_deposit" =>
              /\ analysis.fx_activity.has_fx_activity
              /\ analysis.avg_balance > 500000
        /\ (analysis.fx_activity.has_fx_activity /\ analysis.avg_balance <= 500000) =>
              /\ ~ScoreLeNum(ScoreOf(scores, "fx_exchange"), 49)
              /\ ScoreGt(ScoreOf(scores, "fx_exchange"),
                         ScoreOf(scores, "multi_deposit"))

\* the multi-currency deposit has won
C27_Witness ==
    /\ pc = "rendered"
    /\ best_product = "multi_deposit"
    /\ analysis.avg_balance > 500000
    /\ ScoreGt(ScoreOf(scores, "multi_deposit"), ScoreOf(scores, "fx_exchange"))

----------------------------------------------------------------------------
(* Properties of the rendering, checked on SpecClient *)

\* the f-strings of the generator of each product
OwnTemplates(p) ==
    CASE p = "travel_card" ->
            {"travel_spend", "travel_fx", "travel_taxi", "travel_generic"}
      [] p = "premium_card" ->
            {"premium_status", "premium_balance", "premium_spend", "premium_generic"}
      [] p = "credit_card" -> {"credit_categories", "credit_online", "credit_generic"}
      [] p = "fx_exchange" -> {"fx_volume", "fx_generic"}
      [] p = "cash_loan" -> {"loan_deficit", "loan_generic"}
      [] p = "multi_deposit" -> {"multi_deposit_balance", "multi_deposit_generic"}
      [] p = "savings_deposit" -> {"savings_balance", "savings_generic"}
      [] p = "accumulative_deposit" -> {"accumulative_regular", "accumulative_small"}
      [] p = "investments" ->
            {"investment_start", "investment_ready", "investment_diversify"}
      [] p = "gold" -> {"gold_capital", "gold_generic"}

\* the display name of each product
OwnName(p) ==
    CASE p = "travel_card" -> "Karta dlya puteshestvij"
      [] p = "premium_card" -> "Premialnaya karta"
      [] p = "credit_card" -> "Kreditnaya karta"
      [] p = "fx_exchange" -> "Obmen valyut"
      [] p = "cash_loan" -> "Kredit nalichnymi"
      [] p = "multi_deposit" -> "Depozit multivalyutnyj"
      [] p = "savings_deposit" -> "Depozit sberegatelnyj"
      [] p = "accumulative_deposit" -> "Depozit nakopitelnyj"
      [] p = "investments" -> "Investicii"
      [] p = "gold" -> "Zolotye slitki"

\* C23: on the normal path the product select_best_product returned is
\* rendered by the generator of that product and named by the display name
\* of that product; the default generator and the default name are not
\* used.
C23_OwnTemplateAndName ==
    pc = "rendered" =>
        /\ best_product \in Products
        /\ push_text.template \in OwnTemplates(best_product)
        /\ push_text # _generate_default_push(analysis)
        /\ _get_product_name(best_product) = OwnName(best_product)
        /\ \A p \in Products \ {best_product} :
              _get_product_name(p) # _get_product_name(best_product)

\* gold, the last entry of both tables, has been selected and rendered
C23_Witness ==
    /\ pc = "rendered"
    /\ best_product = "gold"
    /\ push_text.template = "gold_capital"

\* "valyute" = "валюте", the placeholder of _generate_fx_push; "USD" is the
\* placeholder of _generate_travel_push
CurrencyTemplates == {"travel_fx", "fx_volume", "fx_generic"}

\* C24: a message of _generate_travel_push or _generate_fx_push that names
\* a currency names USD or EUR or the placeholder of the template, never
\* an undefined primary FX currency.
C24_CurrencyDefined ==
    (pc = "rendered" /\ push_text.template \in CurrencyTemplates) =>
        push_text.curr \in
            fx_currencies
            \cup (IF push_text.template = "travel_fx" THEN {"USD"} ELSE {"valyute"})

\* the travel spend feature of the analysed client
TravelSpendFeature ==
    IF Truthy(analysis.transaction_stats)
    THEN analysis.transaction_stats.travel_spend ELSE 0

\* C25: the amount _generate_travel_push compares with 100000, quotes and
\* takes 4% of is the travel spend feature: the transactions of the
\* categories travel, taxi and hotel, each counted once.
C25_TravelAmountIsTravelSpend ==
    (pc = "rendered" /\ best_product = "travel_card") =>
        /\ push_text.template = "travel_spend" <=> TravelSpendFeature > 100000
        /\ push_text.template = "travel_spend" =>
              /\ push_text.amount = _format_amount(TravelSpendFeature)
              /\ push_text.amount2 =
                    _format_amount((TravelSpendFeature * 4) \div 100)

----------------------------------------------------------------------------
(* Properties of the feature extraction, checked on SpecClient *)

----------------------------------------------------------------------------
(* Properties of main.analyze_clients, checked on SpecMain *)

\* the rows of recommendations.csv for a client code
RowsOf(c) == {i \in 1..Len(written) : written[i].client_code = c}

\* C17: when analyze_clients has ended, the output holds exactly one row for
\* every client of the clients table, also for a client none of whose ten
\* benefits is positive.
C17_OneRowPerClient ==
    pc = "main_done" =>
        /\ \A c \in DOMAIN clients_df : Cardinality(RowsOf(c)) = 1
        /\ Len(written) = Cardinality(DOMAIN clients_df)

----------------------------------------------------------------------------
(* Properties of the top categories, checked on SpecExtract *)

\* the client's transactions and the summed spend of its categories
TopRows == transactions_df[analysis.client_code]

TopSums == analysis.transaction_stats.category_spend

\* the place of a category in the sorted order of the category names
NamePlace(c) == CHOOSE i \in 1..Len(CategoryOrder) : CategoryOrder[i] = c

\* the place of the first transaction of a category
FirstAppearance(c) ==
    CHOOSE i \in 1..Len(TopRows) :
        /\ TopRows[i].category = c
        /\ \A j \in 1..(i - 1) : TopRows[j].category # c

\* top is the first three (or fewer) of the categories ordered by descending
\* summed spend, equal sums ordered by place
TopThreeBy(top, place(_)) ==
    LET before(c, d) ==
            \/ TopSums[c] > TopSums[d]
            \/ TopSums[c] = TopSums[d] /\ place(c) < place(d)
    IN /\ Len(top) = Min(3, Cardinality(DOMAIN TopSums))
       /\ \A i \in 1..Len(top) : top[i] \in DOMAIN TopSums
       /\ \A i, j \in 1..Len(top) : i < j => before(top[i], top[j])
       /\ \A c \in DOMAIN TopSums \ {top[i] : i \in 1..Len(top)} :
             \A i \in 1..Len(top) : before(top[i], c)

Extracted == pc \in {"score", "score_again"} /\ Truthy(analysis.transaction_stats)

\* C20 as stated: top_categories are the categories by descending summed
\* spend, truncated to 3, categories of equal spend in the order of their
\* first appearance in the client's transactions.
C20_TopCategoriesByAppearance ==
    Extracted =>
        TopThreeBy(analysis.transaction_stats.top_categories, FirstAppearance)

\* C20 as amended: top_categories are the categories by descending summed
\* spend, truncated to 3, categories of equal spend in the sorted order of
\* the category names (the key order of groupby).
C20_TopCategoriesByName ==
    Extracted =>
        TopThreeBy(analysis.transaction_stats.top_categories, NamePlace)

\* four categories, and the one cut off has the spend of the third and
\* appeared before it
C20_Witness ==
    /\ Extracted
    /\ Cardinality(DOMAIN TopSums) = 4
    /\ LET top == analysis.transaction_stats.top_categories
       IN \E c \in DOMAIN TopSums \ {top[i] : i \in 1..Len(top)} :
             /\ TopSums[c] = TopSums[top[3]]
             /\ FirstAppearance(c) < FirstAppearance(top[3])

----------------------------------------------------------------------------
(* Properties of _validate_data, checked on SpecLoaded *)

\* the rows of a table after the step are those before it, one for one,
\* with non-negative amounts, an amount that was not a number being 0
AmountsValidated(before, after) ==
    /\ Len(after) = Len(before)
    /\ \A i \in 1..Len(before) :
          /\ after[i].amount >= 0
          /\ before[i].amount.kind # "number" => after[i].amount = 0

\* C22: after _validate_data every transaction amount and every transfer
\* amount is a non-negative number, every amount that could not be parsed is
\* 0, and no row of either table has been dropped.
C22_AmountsNonNegative ==
    [][(pc = "loaded" /\ pc' = "idle") =>
          /\ AmountsValidated(transactions_df[TheClient], transactions_df'[TheClient])
          /\ AmountsValidated(transfers_df[TheClient], transfers_df'[TheClient])]_pc

----------------------------------------------------------------------------
(* Properties of the selection and of the messages of main.analyze_clients, *)
(* checked on SpecMain                                                      *)

\* the display names in the order of insertion into all_benefits
BenefitOrder ==
    <<"Karta dlya puteshestvij", "Premialnaya karta", "Kreditnaya karta",
      "Obmen valyut", "Depozit sberegatelnyj", "Depozit nakopitelnyj",
      "Kredit nalichnymi", "Depozit multivalyutnyj", "Investicii",
      "Zolotye slitki">>

\* an iteration of the loop of analyze_clients has run
AfterIteration == pc \in {"main_loop", "main_done"} /\ scores # <<>>

\* the iteration has recorded a product
ProductRecorded == AfterIteration /\ best_product # NoProduct

\* the place of the recorded product in all_benefits
RecordedPlace == CHOOSE i \in 1..Len(scores) : scores[i].product = best_product

\* C28: the product recorded for a client has a strictly positive benefit,
\* the largest of the ten benefits of the client, and of the products that
\* share the largest benefit it is the one inserted first into all_benefits.
C28_RecordedIsFirstMaximum ==
    ProductRecorded =>
        /\ [i \in 1..Len(scores) |-> scores[i].product] = BenefitOrder
        /\ Last(recommendations).product = best_product
        /\ scores[RecordedPlace].product = best_product
        /\ scores[RecordedPlace].score > 0
        /\ \A j \in 1..Len(scores) : scores[j].score <= scores[RecordedPlace].score
        /\ \A j \in 1..(RecordedPlace - 1) :
               scores[j].score < scores[RecordedPlace].score

\* two products share the largest benefit and the first is recorded
C28_Witness ==
    /\ ProductRecorded
    /\ \E j \in (RecordedPlace + 1)..Len(scores) :
           scores[j].score = scores[RecordedPlace].score

\* C29: the ten benefit and need-score calls of an iteration leave
\* client_transactions and client_transfers with the rows and the columns
\* the selection from the tables gave them: no amount_kzt column is added.
C29_ClientTablesUnchanged ==
    [][(queue' # queue) =>
          /\ client_transactions' =
                Frame(transactions_df[Head(queue)], TransactionColumns)
          /\ client_transfers' =
                Frame(transfers_df[Head(queue)], TransferColumns)
          /\ "amount_kzt" \notin client_transactions'.columns]_vars

\* an iteration has run for a client with transactions and with transfers
C29_Witness ==
    /\ AfterIteration
    /\ client_transactions.rows # <<>>
    /\ client_transfers.rows # <<>>
    /\ "amount_kzt" \notin client_transactions.columns

\* the recorded product is the travel card and the client has transactions
\* in the travel, taxi or hotel categories
TravelCardRecorded ==
    /\ ProductRecorded
    /\ best_product = "Karta dlya puteshestvij"
    /\ \E i \in 1..Len(client_transactions.rows) :
           client_transactions.rows[i].category \in travel_categories

\* C30: when the travel card is recorded for a client with transactions in
\* the travel, taxi or hotel categories, the message is the month-specific
\* travel variant quoting the computed cashback benefit.
C30_TravelMonthVariant ==
    TravelCardRecorded =>
        /\ push_text.template = "main_travel_month"
        /\ push_text.amount = scores[RecordedPlace].score
====
